---------------------------- MODULE Spec2Model ----------------------------
(***************************************************************************)
(* Model of the scalarisation pass of lib/src/scalar.rs: the compiler      *)
(* ScalarCompiler = (UniformOutShapes, Scalarize) run on a luminal Graph.  *)
(*                                                                         *)
(* The graph is a petgraph StableGraph: node and edge indices of removed   *)
(* items are kept on free lists and handed out again (last freed first),   *)
(* and the edges of a node are listed most recently added first.           *)
(* A panic of the Rust code ends the pass: pc = "aborted", err names the   *)
(* failure, and the graph is left as it was at the panicking statement.    *)
(***************************************************************************)
EXTENDS Integers, Sequences, FiniteSets, TLC

\* ------------------------------------------------------------------ bounds
\* Largest length of a tensor dimension in the input graphs.
MaxDim == 3
\* The ranks of the input tensors.
Ranks == {1, 2}

\* ------------------------------------------------------------ small helpers
None == -1

Range(s) == { s[i] : i \in 1..Len(s) }

RECURSIVE Product(_)
Product(s) == IF s = <<>> THEN 1 ELSE Head(s) * Product(Tail(s))

Max2(a, b) == IF a >= b THEN a ELSE b

Take(s, n) == SubSeq(s, 1, IF n <= Len(s) THEN n ELSE Len(s))
Skip(s, n) == SubSeq(s, n + 1, Len(s))

\* ------------------------------------------------------------ ShapeTracker
\* luminal's ShapeTracker as the pass uses it.  dims, fake and padding are
\* stored per physical slot; indexes[k] is the slot of logical axis k (1-based
\* here).  A dimension of 0 stands for a dynamic (symbolic) dimension.
Dyn == 0

R0 == [dims |-> <<>>, indexes |-> <<>>, fake |-> <<>>, padding |-> <<>>]

\* ShapeTracker::new(dims): a contiguous tracker
Tracker(d) ==
  [dims |-> d,
   indexes |-> [k \in 1..Len(d) |-> k],
   fake |-> [k \in 1..Len(d) |-> FALSE],
   padding |-> [k \in 1..Len(d) |-> <<0, 0>>]]

\* ShapeTracker::expand(axis, dim): a broadcast (fake) dimension at logical
\* position axis (0-based)
Expand(sh, axis, dim) ==
  [dims |-> Append(sh.dims, dim),
   indexes |-> Take(sh.indexes, axis) \o <<Len(sh.dims) + 1>> \o Skip(sh.indexes, axis),
   fake |-> Append(sh.fake, TRUE),
   padding |-> Append(sh.padding, <<0, 0>>)]

\* ShapeTracker::pad: padding (left, right) on logical axis (0-based)
Pad(sh, axis, l, r) ==
  [sh EXCEPT !.padding[sh.indexes[axis + 1]] = <<@[1] + l, @[2] + r>>]

\* ShapeTracker::permute
Permute(sh, axes) ==
  [sh EXCEPT !.indexes = [k \in 1..Len(axes) |-> sh.indexes[axes[k] + 1]]]

IsStatic(sh) == \A k \in 1..Len(sh.dims) : sh.dims[k] # Dyn

PadDim(sh, i) == sh.dims[i] + sh.padding[i][1] + sh.padding[i][2]

\* ShapeTracker::shape_usize(): the logical dimensions
ShapeUsize(sh) == [k \in 1..Len(sh.indexes) |-> PadDim(sh, sh.indexes[k])]

IsContiguous(sh) ==
  /\ \A k \in 1..Len(sh.indexes) : sh.indexes[k] = k
  /\ \A k \in 1..Len(sh.fake) : ~sh.fake[k]

IsPadded(sh) == \E k \in 1..Len(sh.padding) : sh.padding[k] # <<0, 0>>

\* n_elements().to_usize(): the logical element count, None when not static
NElements(sh) == IF IsStatic(sh) THEN Product(ShapeUsize(sh)) ELSE None

RECURSIVE PhysProduct(_, _)
PhysProduct(sh, ix) ==
  IF ix = <<>> THEN 1
  ELSE (IF sh.fake[Head(ix)] THEN 1 ELSE PadDim(sh, Head(ix))) * PhysProduct(sh, Tail(ix))

\* n_physical_elements().to_usize(): the element count without broadcast dims
NPhysicalElements(sh) == IF IsStatic(sh) THEN PhysProduct(sh, sh.indexes) ELSE None

\* stride of physical slot i: the product of the real dimensions after it
Stride(sh, i) ==
  Product([k \in 1..(Len(sh.dims) - i) |->
             IF sh.fake[i + k] THEN 1 ELSE sh.dims[i + k]])

\* The logical axes are walked last to first; acc is the product of the
\* logical dimensions already passed.
RECURSIVE IndexWalk(_, _, _, _)
IndexWalk(sh, k, acc, z) ==
  IF k = 0 THEN 0
  ELSE LET i == sh.indexes[k]
           logical_sh == PadDim(sh, i)
           dim_ind == (z \div acc) % logical_sh
           here == IF sh.fake[i] THEN 0
                   ELSE (dim_ind - sh.padding[i][1]) * Stride(sh, i)
       IN here + IndexWalk(sh, k - 1, acc * logical_sh, z)

\* index_expression().exec_single_var(z): logical index -> physical index
IndexExpression(sh, z) ==
  IF IsContiguous(sh) /\ ~IsPadded(sh) THEN z
  ELSE IndexWalk(sh, Len(sh.indexes), 1, z)

RECURSIVE ValidWalk(_, _, _, _)
ValidWalk(sh, k, acc, z) ==
  IF k = 0 THEN TRUE
  ELSE LET i == sh.indexes[k]
           logical_sh == PadDim(sh, i)
           dim_ind == (z \div acc) % logical_sh
           here == sh.fake[i]
                   \/ (dim_ind >= sh.padding[i][1]
                       /\ dim_ind < sh.dims[i] + sh.padding[i][1])
       IN here /\ ValidWalk(sh, k - 1, acc * logical_sh, z)

\* valid_expression().exec_single_var(z): 1 when index z is physically backed
ValidExpression(sh, z) ==
  IF IsContiguous(sh) /\ ~IsPadded(sh) THEN 1
  ELSE IF ValidWalk(sh, Len(sh.indexes), 1, z) THEN 1 ELSE 0

logical_to_physical(sh, index) ==
  IF ValidExpression(sh, index) # 0 THEN IndexExpression(sh, index) ELSE None


\* ------------------------------------------------------------- StableGraph
\* Operation kinds of the input vocabulary and of the little nodes.
SourceKinds == {"Function", "Constant"}
UnaryKinds == {"Recip", "SumReduce", "MaxReduce"}
BinaryKinds == {"Add", "Mul", "LessThan"}
ReduceKinds == {"SumReduce", "MaxReduce"}
PointwiseKinds == {"Recip", "Add", "Mul", "LessThan"}
\* primitive operators of luminal the pass has no case for
OtherKinds == {"Exp2", "Mod"}

Op(kind) == [kind |-> kind, axis |-> 0, val |-> 0]
ReduceOpW(kind, ax) == [kind |-> kind, axis |-> ax, val |-> 0]
ConstantW(v) == [kind |-> "Constant", axis |-> 0, val |-> v]
VacantNode == Op("Vacant")
VacantEdge ==
  [src |-> None, dst |-> None, data |-> FALSE, inp |-> 0, out |-> 0, shape |-> R0]

EmptyGraph ==
  [nodes |-> <<>>, free_node |-> <<>>, outl |-> <<>>, inl |-> <<>>,
   edges |-> <<>>, free_edge |-> <<>>, to_retrieve |-> <<>>]

Remove(s, e) == LET keep(v) == v # e IN SelectSeq(s, keep)

\* the index add_node hands out: the last freed one, else a new one
NextNode(g) ==
  IF g.free_node # <<>> THEN Head(g.free_node) ELSE Cardinality(DOMAIN g.nodes)

\* graph.add_op(op).finish()
AddNode(g, w) ==
  LET id == NextNode(g) IN
  [g EXCEPT !.nodes = (id :> w) @@ @,
            !.outl = (id :> <<>>) @@ @,
            !.inl = (id :> <<>>) @@ @,
            !.free_node = IF @ # <<>> THEN Tail(@) ELSE @]

\* the index add_edge hands out
NextEdge(g) ==
  IF g.free_edge # <<>> THEN Head(g.free_edge) ELSE Cardinality(DOMAIN g.edges)

\* graph.add_edge(a, b, Dependency::Data {input_order, output_order, shape})
AddEdge(g, a, b, inp, out, shape) ==
  LET e == NextEdge(g) IN
  [g EXCEPT !.edges = (e :> [src |-> a, dst |-> b, data |-> TRUE, inp |-> inp,
                             out |-> out, shape |-> shape]) @@ @,
            !.outl[a] = <<e>> \o @,
            !.inl[b] = <<e>> \o @,
            !.free_edge = IF @ # <<>> THEN Tail(@) ELSE @]

\* an edge of weight Dependency::Schedule, which as_data() filters out
AddSchedule(g, a, b) ==
  LET e == NextEdge(g) IN
  [g EXCEPT !.edges = (e :> [src |-> a, dst |-> b, data |-> FALSE, inp |-> 0,
                             out |-> 0, shape |-> R0]) @@ @,
            !.outl[a] = <<e>> \o @,
            !.inl[b] = <<e>> \o @,
            !.free_edge = IF @ # <<>> THEN Tail(@) ELSE @]

\* edges_directed(x, dir).filter_map(|e| e.weight().as_data()): the data
\* edges of a node, most recently added first
DataOut(g, x) == LET IsData(e) == g.edges[e].data IN SelectSeq(g.outl[x], IsData)
DataIn(g, x) == LET IsData(e) == g.edges[e].data IN SelectSeq(g.inl[x], IsData)

RemoveEdge(g, e) ==
  [g EXCEPT !.outl[g.edges[e].src] = Remove(@, e),
            !.inl[g.edges[e].dst] = Remove(@, e),
            !.edges[e] = VacantEdge,
            !.free_edge = <<e>> \o @]

RECURSIVE RemoveEdgesOf(_, _)
RemoveEdgesOf(g, x) ==
  IF g.outl[x] # <<>> THEN RemoveEdgesOf(RemoveEdge(g, Head(g.outl[x])), x)
  ELSE IF g.inl[x] # <<>> THEN RemoveEdgesOf(RemoveEdge(g, Head(g.inl[x])), x)
  ELSE g

\* a loop body without the call of remove_node
RemoveNodeSkipped(g, x) == g

\* graph.remove_node(x): the outgoing edges go first, then the incoming ones,
\* then the node; the retrieval set is not touched
RemoveNode(g, x) ==
  LET h == RemoveEdgesOf(g, x) IN
  [h EXCEPT !.nodes[x] = VacantNode, !.free_node = <<x>> \o @]

LiveNodes(g) == { n \in DOMAIN g.nodes : g.nodes[n].kind # "Vacant" }
LiveEdges(g) == { e \in DOMAIN g.edges : g.edges[e].src # None }
DataEdges(g) == { e \in LiveEdges(g) : g.edges[e].data }

\* the live node indices in ascending order (node_indices / node_identifiers)
RECURSIVE Ascending(_)
Ascending(S) ==
  IF S = {} THEN <<>>
  ELSE LET m == CHOOSE a \in S : \A b \in S : a <= b IN <<m>> \o Ascending(S \ {m})

NodeIdentifiers(g) == Ascending(LiveNodes(g))

\* --------------------------------------------------- building input graphs
\* A GraphTensor is a node and the tracker of its output.
GT(id, sh) == [id |-> id, shape |-> sh]

\* cx.tensor::<S>(): a Function (input) node
NewTensor(g, d) == [g |-> AddNode(g, Op("Function")), t |-> GT(NextNode(g), Tracker(d))]

\* a node of some kind with its inputs wired in order, as NewOp::finish does
RECURSIVE WireInputs(_, _, _, _)
WireInputs(g, id, ins, k) ==
  IF k > Len(ins) THEN g
  ELSE WireInputs(AddEdge(g, ins[k].id, id, k - 1, 0, ins[k].shape), id, ins, k + 1)

NewOp(g, w, ins, outsh) ==
  LET id == NextNode(g) IN
  [g |-> WireInputs(AddNode(g, w), id, ins, 1), t |-> GT(id, outsh)]

\* tensor.retrieve()
Retrieve(g, t) == [g EXCEPT !.to_retrieve = (t.id :> [out |-> 0, shape |-> t.shape]) @@ @]

\* the tracker of the result of a reduction over axis ax
ReducedDims(d, ax) == Take(d, ax) \o Skip(d, ax + 1)

\* ------------------------------------------------------- UniformOutShapes
\* an all_equal over the shapes alone, without the output slots
AllEqualShapes(g, node) ==
  \A e1 \in Range(DataOut(g, node)), e2 \in Range(DataOut(g, node)) :
     g.edges[e1].shape = g.edges[e2].shape

\* all_equal over the (output_order, shape) pairs of the outgoing data edges
AllEqualOut(g, node) ==
  \A e1 \in Range(DataOut(g, node)), e2 \in Range(DataOut(g, node)) :
     /\ g.edges[e1].out = g.edges[e2].out
     /\ g.edges[e1].shape = g.edges[e2].shape

\* UniformOutShapes::compile: the assertion holds for every node
UniformOutShapes(g) == \A node \in LiveNodes(g) : AllEqualOut(g, node)

\* ------------------------------------------------------- Scalarize: sizes
\* get_own_shape: the retrieval shape, else the shape of the first outgoing
\* data edge; [err, shape]
get_own_shape(x, gg) ==
  IF x \in DOMAIN gg.to_retrieve
    THEN [err |-> "none", shape |-> gg.to_retrieve[x].shape]
  ELSE IF DataOut(gg, x) # <<>>
    THEN [err |-> "none", shape |-> gg.edges[Head(DataOut(gg, x))].shape]
  ELSE [err |-> "NoOutgoingNotRetrieved", shape |-> R0]

\* get_own_size: [err, n]
get_own_size(x, gg) ==
  LET s == get_own_shape(x, gg) IN
  IF s.err # "none" THEN [err |-> s.err, n |-> 0]
  ELSE IF NPhysicalElements(s.shape) = None THEN [err |-> "NonStaticShape", n |-> 0]
  ELSE [err |-> "none", n |-> NPhysicalElements(s.shape)]

\* a precomputation that never fails: a node without a size gets size 0
NoSizeError(xs, gg) == "none"

\* the failure of the first node (in index order) whose size cannot be taken
RECURSIVE FirstSizeError(_, _)
FirstSizeError(xs, gg) ==
  IF xs = <<>> THEN "none"
  ELSE IF get_own_size(Head(xs), gg).err # "none" THEN get_own_size(Head(xs), gg).err
  ELSE FirstSizeError(Tail(xs), gg)

ComputeSizes(gg) == [x \in LiveNodes(gg) |-> get_own_size(x, gg).n]

\* ---------------------------------------------------- Scalarize: toposort
\* petgraph::algo::toposort: an iterative depth-first search over the nodes in
\* index order; a node is finished when it is met on the stack a second time.
Neighbors(g, nx) == [k \in 1..Len(g.outl[nx]) |-> g.edges[g.outl[nx][k]].dst]

RECURSIVE DfsLoop(_, _, _, _, _)
DfsLoop(g, stack, disc, fin, out) ==
  IF stack = <<>> THEN [disc |-> disc, fin |-> fin, out |-> out]
  ELSE LET nx == stack[Len(stack)] IN
    IF nx \notin disc
      THEN LET fresh(s) == s \notin (disc \cup {nx}) IN
           DfsLoop(g, stack \o SelectSeq(Neighbors(g, nx), fresh),
                   disc \cup {nx}, fin, out)
      ELSE DfsLoop(g, SubSeq(stack, 1, Len(stack) - 1), disc,
                   fin \cup {nx}, IF nx \in fin THEN out ELSE Append(out, nx))

RECURSIVE DfsAll(_, _, _, _, _)
DfsAll(g, ids, disc, fin, out) ==
  IF ids = <<>> THEN out
  ELSE IF Head(ids) \in disc THEN DfsAll(g, Tail(ids), disc, fin, out)
  ELSE LET r == DfsLoop(g, <<Head(ids)>>, disc, fin, out) IN
       DfsAll(g, Tail(ids), r.disc, r.fin, r.out)

Reverse(s) == [k \in 1..Len(s) |-> s[Len(s) + 1 - k]]

\* the topological order (the finish stack reversed)
Toposort(g) == Reverse(DfsAll(g, NodeIdentifiers(g), {}, {}, <<>>))

\* the topological order as toposort returns it, sources first
ForwardPi(g) == Toposort(g)

\* pi: the topological order reversed, sinks first
ComputePi(g) == Reverse(Toposort(g))

\* ---------------------------------------------------- Scalarize: helpers
\* A handler returns [g, esi, it, err, little, made]: the graph, the edge
\* index tracker and the inputs tracker as the handler left them, the failure
\* ("none" when it returned), and the list of little nodes once it was built.
Result(g, esi, it, err, little, made) ==
  [g |-> g, esi |-> esi, it |-> it, err |-> err, little |-> little, made |-> made]

\* a make_nodes that loops over 0..=size: one node too many
RECURSIVE make_nodes_inclusive(_, _, _)
make_nodes_inclusive(size, op, g) ==
  LET id == NextNode(g)
      r == IF size = 0 THEN [g |-> AddNode(g, Op(op)), ids |-> <<>>]
           ELSE make_nodes_inclusive(size - 1, op, AddNode(g, Op(op)))
  IN [g |-> r.g, ids |-> <<id>> \o r.ids]

\* make_nodes(size, op, graph): [g, ids]
RECURSIVE make_nodes(_, _, _)
make_nodes(size, op, g) ==
  IF size = 0 THEN [g |-> g, ids |-> <<>>]
  ELSE LET id == NextNode(g)
           r == make_nodes(size - 1, op, AddNode(g, Op(op)))
       IN [g |-> r.g, ids |-> <<id>> \o r.ids]

\* the data edges of x in one direction, as (edge, weight, other end)
EdgeRec(g, e) ==
  [e |-> e, inp |-> g.edges[e].inp, out |-> g.edges[e].out,
   shape |-> g.edges[e].shape, source |-> g.edges[e].src, target |-> g.edges[e].dst]

OutEdges(g, x) == [k \in 1..Len(DataOut(g, x)) |-> EdgeRec(g, DataOut(g, x)[k])]

\* the loop of connect_out_edges over the collected edges: [g, err]
RECURSIVE ConnectLoop(_, _, _, _)
ConnectLoop(out_edges, little_nodes, esi, g) ==
  IF out_edges = <<>> THEN [g |-> g, err |-> "none"]
  ELSE LET oe == Head(out_edges) IN
    IF oe.e \notin DOMAIN esi THEN [g |-> g, err |-> "MissingEdgeIndex"]
    ELSE LET phys_index == logical_to_physical(oe.shape, esi[oe.e]) IN
      IF phys_index = None THEN [g |-> g, err |-> "IndexOutOfPhysicalRange"]
      ELSE IF phys_index >= Len(little_nodes)
        THEN [g |-> g, err |-> "LittleNodeIndexOutOfBounds"]
      ELSE ConnectLoop(Tail(out_edges), little_nodes, esi,
                       AddEdge(g, little_nodes[phys_index + 1], oe.target,
                               oe.inp, oe.out, R0))

connect_out_edges(x, little_nodes, esi, g) ==
  ConnectLoop(OutEdges(g, x), little_nodes, esi, g)

\* the key under which pointwise_op records the index of a new operand edge:
\* the incoming edge e of the loop, not the edge add_edge returns
PointwiseKey(inc, g) == inc.e

\* an input slot that is 0 whatever slot the operand had
OperandSlotFirst(inc) == 0

\* input_order: *b of the operand edges pointwise_op makes
OperandSlot(inc) == inc.inp

\* for j in 0..k of pointwise_op: [g, esi]
RECURSIVE WireOperand(_, _, _, _, _, _)
WireOperand(inc, j, k, little_nodes, esi, g) ==
  IF j >= k THEN [g |-> g, esi |-> esi, err |-> "none"]
  ELSE IF j >= Len(little_nodes)
    THEN [g |-> g, esi |-> (PointwiseKey(inc, g) :> j) @@ esi,
          err |-> "LittleNodeIndexOutOfBounds"]
  ELSE WireOperand(inc, j + 1, k, little_nodes,
                   (PointwiseKey(inc, g) :> j) @@ esi,
                   AddEdge(g, inc.source, little_nodes[j + 1], OperandSlot(inc),
                           inc.out,
                           inc.shape))

\* a size check that lets an operand with fewer elements through
OperandAtMost(k, size) == k <= size

\* assert!(k == size) of pointwise_op
OperandFits(k, size) == k = size

\* for (e, (b, output_order, shape), source) in incoming: [g, esi, err]
RECURSIVE WireIncoming(_, _, _, _, _)
WireIncoming(incoming, size, little_nodes, esi, g) ==
  IF incoming = <<>> THEN [g |-> g, esi |-> esi, err |-> "none"]
  ELSE LET inc == Head(incoming)
           k == NElements(inc.shape)
       IN IF k = None THEN [g |-> g, esi |-> esi, err |-> "NonStaticShape"]
          ELSE IF ~OperandFits(k, size) THEN [g |-> g, esi |-> esi, err |-> "OperandSizeMismatch"]
          ELSE LET w == WireOperand(inc, 0, k, little_nodes, esi, g) IN
               IF w.err # "none" THEN w
               ELSE WireIncoming(Tail(incoming), size, little_nodes, w.esi, w.g)

pointwise_op(op, x, size, incoming, esi, it, g) ==
  LET mk == make_nodes(size, op, g)
      c == connect_out_edges(x, mk.ids, esi, mk.g)
  IN IF c.err # "none" THEN Result(c.g, esi, it, c.err, mk.ids, TRUE)
     ELSE LET w == WireIncoming(incoming, size, mk.ids, esi, c.g) IN
          Result(w.g, w.esi, it, w.err, mk.ids, TRUE)

\* a fold step that leaves the accumulator out
AccumulatorEdgeOmitted(g, l_node, new) == g

\* let _ = graph.add_edge(l_node, new, Data {input_order: 0, ..})
AccumulatorEdge(g, l_node, new) == AddEdge(g, l_node, new, 0, 0, R0)

\* xs.fold(*y, ...): one chain; [g, esi, node]
RECURSIVE Fold(_, _, _, _, _, _)
Fold(xs, l_node, y, op, esi, g) ==
  IF xs = <<>> THEN [g |-> g, esi |-> esi, node |-> l_node]
  ELSE LET new == NextNode(g)
           g1 == AddNode(g, Op(op))
           g2 == AccumulatorEdge(g1, l_node, new)
           e_r == NextEdge(g2)
           g3 == AddEdge(g2, y, new, 1, 0, R0)
       IN Fold(Tail(xs), new, y, op, (e_r :> Head(xs)) @@ esi, g3)

\* the logical indices in y of the axis elements of output position i
AxisIndices(i, front_size, back_size, ax_len) ==
  LET front_i == i \div front_size
      back_i == i % front_size
  IN [k \in 1..ax_len |-> front_i * back_size * ax_len + (k - 1) * back_size + back_i]

create_reduce_circuit(i, front_size, back_size, ax_len, y, op, esi, g) ==
  Fold(AxisIndices(i, front_size, back_size, ax_len), y, y, op, esi, g)

\* (0..size).map(create_reduce_circuit).collect(): [g, esi, ids]
RECURSIVE ReduceCircuits(_, _, _, _, _, _, _, _, _)
ReduceCircuits(i, size, front_size, back_size, ax_len, y, op, esi, g) ==
  IF i >= size THEN [g |-> g, esi |-> esi, ids |-> <<>>]
  ELSE LET c == create_reduce_circuit(i, front_size, back_size, ax_len, y, op, esi, g)
           r == ReduceCircuits(i + 1, size, front_size, back_size, ax_len, y, op,
                               c.esi, c.g)
       IN [g |-> r.g, esi |-> r.esi, ids |-> <<c.node>> \o r.ids]

\* an axis check that lets an axis of length 1 through
AxisNonEmpty(ax_len) == ax_len > 0

\* the assertion on the length of the reduced axis
AxisOk(ax_len) == ax_len > 1

reduce_op(op, x, size, ax, yy, esi, it, g) ==
  LET sh == yy.shape IN
  IF ~IsStatic(sh) THEN Result(g, esi, it, "NonStaticShape", <<>>, FALSE)
  ELSE LET dims == ShapeUsize(sh) IN
    IF ax >= Len(dims) THEN Result(g, esi, it, "AxisOutOfRange", <<>>, FALSE)
    ELSE LET ax_len == dims[ax + 1]
             front_size == Max2(Product(Take(dims, ax)), 1)
             back_size == Max2(Product(Skip(dims, ax + 1)), 1)
         IN IF ~AxisOk(ax_len)
              THEN Result(g, esi, it, "DegenerateReduceAxis", <<>>, FALSE)
            ELSE IF yy.out # 0
              THEN Result(g, esi, it, "NonZeroOutputSlot", <<>>, FALSE)
            ELSE IF size # NElements(sh) \div ax_len \/ size # front_size * back_size
              THEN Result(g, esi, it, "ReduceSizeMismatch", <<>>, FALSE)
            ELSE LET rc == ReduceCircuits(0, size, front_size, back_size, ax_len,
                                          yy.source, op, esi, g)
                     c == connect_out_edges(x, rc.ids, rc.esi, rc.g)
                 IN Result(c.g, rc.esi, it, c.err, rc.ids, TRUE)

\* mark_retrieve(&x, new_xs, g): [g, err]
RECURSIVE InsertRetrieve(_, _)
InsertRetrieve(new_xs, tr) ==
  IF new_xs = <<>> THEN tr
  ELSE InsertRetrieve(Tail(new_xs), (Head(new_xs) :> [out |-> 0, shape |-> R0]) @@ tr)

mark_retrieve(x, new_xs, g) ==
  IF x \in DOMAIN g.to_retrieve
    THEN IF g.to_retrieve[x].out # 0 THEN [g |-> g, err |-> "RetrieveNonZeroOutput"]
         ELSE [g |-> [g EXCEPT !.to_retrieve = InsertRetrieve(new_xs, @)],
               err |-> "none"]
    ELSE [g |-> g, err |-> "none"]

\* ----------------------------------------------------- Scalarize: dispatch
EmptyTracker == [new_inputs |-> <<>>, constants |-> <<>>]

\* a record of the literal keyed by the node that is replaced, not by the new one
RecordConstantUnderOriginal(it, x, ids, val) ==
  [it EXCEPT !.constants = (x :> val) @@ @]

\* little_nodes.iter().for_each(|y| inputs_tracker.constants.insert(*y, val))
RECURSIVE RecordConstant(_, _, _, _)
RecordConstant(it, x, ids, val) ==
  IF ids = <<>> THEN it
  ELSE RecordConstant([it EXCEPT !.constants = (Head(ids) :> val) @@ @], x,
                      Tail(ids), val)

\* a dispatch that takes every leaf that is not a Constant for an input
SourceCaseDefaultInput(kind) ==
  IF kind = "Constant" THEN "ConstantOp" ELSE "InputOp"

\* the marker of the little nodes of a node without operands, "" when the
\* pass has no case for the kind
SourceCase(kind) ==
  IF kind = "Function" THEN "InputOp"
  ELSE IF kind = "Constant" THEN "ConstantOp"
  ELSE ""

\* a check on the little nodes of a constant that lets any number through
ScalarOrVector(ids) == TRUE

\* assert!(little_nodes.len() == 1, "Constants are expected to be scalars")
ScalarConstant(ids) == Len(ids) = 1

\* the source branch: x has no incoming data edge
source_op(x, size, esi, it, g) ==
  IF SourceCase(g.nodes[x].kind) = "InputOp"
    THEN LET mk == make_nodes(size, "InputOp", g)
             c == connect_out_edges(x, mk.ids, esi, mk.g)
         IN IF c.err # "none" THEN Result(c.g, esi, it, c.err, mk.ids, TRUE)
            ELSE Result(c.g, esi,
                        [it EXCEPT !.new_inputs = (x :> mk.ids) @@ @],
                        "none", mk.ids, TRUE)
  ELSE IF SourceCase(g.nodes[x].kind) = "ConstantOp"
    THEN LET mk == make_nodes(size, "ConstantOp", g)
             c == connect_out_edges(x, mk.ids, esi, mk.g)
             val == g.nodes[x].val
         IN IF c.err # "none" THEN Result(c.g, esi, it, c.err, mk.ids, TRUE)
            ELSE IF ~ScalarConstant(mk.ids)
              THEN Result(c.g, esi, it, "NonScalarConstant", mk.ids, TRUE)
            ELSE Result(c.g, esi, RecordConstant(it, x, mk.ids, val),
                        "none", mk.ids, TRUE)
  ELSE Result(g, esi, it, "UnsupportedSourceNodeKind", <<>>, FALSE)

\* the operator of the little nodes of a one-operand node, "" when the pass has
\* no case for the kind
UnaryCase(kind) ==
  IF kind = "Recip" THEN "Recip"
  ELSE IF kind = "SumReduce" THEN "Add"
  ELSE IF kind = "MaxReduce" THEN "Max"
  ELSE ""

unary_op(x, size, incoming, esi, it, g) ==
  LET kind == g.nodes[x].kind IN
  IF UnaryCase(kind) = "" THEN Result(g, esi, it, "UnsupportedUnaryOp", <<>>, FALSE)
  ELSE IF kind \in ReduceKinds
    THEN reduce_op(UnaryCase(kind), x, size, g.nodes[x].axis, incoming[1], esi, it, g)
  ELSE pointwise_op(UnaryCase(kind), x, size, incoming, esi, it, g)

\* a dispatch whose last arm takes every other two-operand kind for Mul
BinaryCaseDefaultMul(kind) ==
  IF kind \in {"Add", "Mul", "LessThan"} THEN kind ELSE "Mul"

\* the operator of the little nodes of a two-operand node, "" when the pass
\* has no case for the kind
BinaryCase(kind) == IF kind \in {"Add", "Mul", "LessThan"} THEN kind ELSE ""

binary_op(x, size, incoming, esi, it, g) ==
  LET kind == g.nodes[x].kind IN
  IF BinaryCase(kind) = "" THEN Result(g, esi, it, "UnsupportedBinaryOp", <<>>, FALSE)
  ELSE pointwise_op(BinaryCase(kind), x, size, incoming, esi, it, g)

\* sorted_by_key(input_order): a stable sort
RECURSIVE InsertByInp(_, _)
InsertByInp(sorted, v) ==
  IF sorted = <<>> THEN <<v>>
  ELSE IF Head(sorted).inp <= v.inp THEN <<Head(sorted)>> \o InsertByInp(Tail(sorted), v)
  ELSE <<v>> \o sorted

RECURSIVE SortedByInp(_, _)
SortedByInp(s, acc) ==
  IF s = <<>> THEN acc ELSE SortedByInp(Tail(s), InsertByInp(acc, Head(s)))

\* the incoming data edges of x, sorted by input slot
Incoming(g, x) ==
  SortedByInp([k \in 1..Len(DataIn(g, x)) |-> EdgeRec(g, DataIn(g, x)[k])], <<>>)

\* ------------------------------------------------------- the input graphs
\* The input graphs are built the way the tests of scalar.rs build theirs:
\* tensors, a pointwise or reduce operation over them, possibly a second
\* operation over the result, and retrieve() on the sinks.
DimLists == UNION { [1..r -> 1..MaxDim] : r \in Ranks }

RECURSIVE FakeAll(_, _)
FakeAll(d, k) == IF k = 0 THEN R0 ELSE Expand(FakeAll(d, k - 1), k - 1, d[k])

Leaf(kind, sh) == [kind |-> kind, shape |-> sh]

\* the operands whose logical dimensions are d: a tensor, a constant broadcast
\* to d, a row or a column broadcast to d, a transposed tensor, a padded
\* tensor, a tensor with a dynamic first dimension
Leaves(d) ==
  {Leaf("Function", Tracker(d)), Leaf("Constant", FakeAll(d, Len(d)))}
  \cup (IF Len(d) = 2
          THEN {Leaf("Function", Expand(Tracker(<<d[1]>>), 1, d[2])),
                Leaf("Function", Expand(Tracker(<<d[2]>>), 0, d[1])),
                Leaf("Function", Permute(Tracker(<<d[2], d[1]>>), <<1, 0>>))}
          ELSE {})
  \cup (IF d[Len(d)] >= 2
          THEN {Leaf("Function",
                     Pad(Tracker([d EXCEPT ![Len(d)] = @ - 1]), Len(d) - 1, 0, 1))}
          ELSE {})
  \cup {Leaf("Function", Tracker([d EXCEPT ![1] = Dyn]))}

PlainLeaves(d) ==
  {Leaf("Function", Tracker(d)), Leaf("Constant", FakeAll(d, Len(d)))}

\* the literals of the constants of the input graphs
Literals == <<7, 3>>

LeafW(kind) == IF kind = "Constant" THEN ConstantW(Literals[1]) ELSE Op(kind)

NewLeaf(g, leaf) ==
  [g |-> AddNode(g, LeafW(leaf.kind)), t |-> GT(NextNode(g), leaf.shape)]

OutShape(kind, ax, sh) ==
  IF kind \in ReduceKinds THEN Tracker(ReducedDims(ShapeUsize(sh), ax))
  ELSE Tracker(ShapeUsize(sh))

UnT(g, kind, ax, a) == NewOp(g, ReduceOpW(kind, ax), <<a>>, OutShape(kind, ax, a.shape))
BinT(g, kind, a, b) == NewOp(g, Op(kind), <<a, b>>, Tracker(ShapeUsize(a.shape)))

MaybeRetrieve(r, retr) == IF retr THEN Retrieve(r.g, r.t) ELSE r.g

\* what is in the graph before the expression: nothing, a retrieved input,
\* or a retrieved constant
Prefixes == {"none", "input", "const"}
Prefix(pre) ==
  IF pre = "input" THEN MaybeRetrieve(NewTensor(EmptyGraph, <<2>>), TRUE)
  ELSE IF pre = "const"
    THEN MaybeRetrieve(NewOp(EmptyGraph, ConstantW(Literals[2]), <<>>, R0), TRUE)
  ELSE EmptyGraph

AllKinds == SourceKinds \cup UnaryKinds \cup BinaryKinds \cup OtherKinds

UnaryOps(d) ==
  {[kind |-> k, ax |-> 0] : k \in {"Recip", "Exp2", "Add"}}
  \cup {[kind |-> k, ax |-> ax] : k \in ReduceKinds, ax \in 0..(Len(d) - 1)}

\* one node on its own
IsoGraphs ==
  { MaybeRetrieve(NewOp(Prefix(pre), LeafW(k), <<>>, Tracker(d)), retr) :
      pre \in Prefixes, k \in AllKinds, d \in DimLists \cup {<<>>}, retr \in BOOLEAN }

\* op(a)
UnGraphs ==
  UNION { { LET a == NewLeaf(Prefix(pre), leaf)
            IN MaybeRetrieve(UnT(a.g, o.kind, o.ax, a.t), retr) :
              leaf \in Leaves(d), o \in UnaryOps(d), retr \in BOOLEAN } :
          pre \in Prefixes, d \in DimLists }

\* a op b, and a op a
BinGraphs ==
  UNION { { LET a == NewLeaf(Prefix(pre), l1)
                b == NewLeaf(a.g, l2)
            IN MaybeRetrieve(BinT(b.g, k, a.t, b.t), TRUE) :
              l1 \in Leaves(d),
              l2 \in PlainLeaves(d) \cup {Leaf("Function", Tracker(<<1>>))},
              k \in BinaryKinds \cup {"Mod", "Recip"} } :
          pre \in Prefixes, d \in DimLists }
  \cup { LET a == NewLeaf(Prefix(pre), Leaf("Function", Tracker(d)))
         IN MaybeRetrieve(BinT(a.g, k, a.t, a.t), TRUE) :
           pre \in Prefixes, d \in DimLists, k \in BinaryKinds }

\* (a k1 b) k2 c, with (a k1 b) possibly a row broadcast to d; and op(a k1 b)
InnerShapes(d) ==
  {[di |-> d, ex |-> FALSE]}
  \cup (IF Len(d) = 2 THEN {[di |-> <<d[1]>>, ex |-> TRUE]} ELSE {})

TwoGraphs ==
  UNION { { LET a == NewLeaf(EmptyGraph, Leaf("Function", Tracker(i.di)))
                b == NewLeaf(a.g, Leaf("Function", Tracker(i.di)))
                ab == BinT(b.g, k1, a.t, b.t)
                c == NewLeaf(ab.g, l2)
                abx == IF i.ex THEN GT(ab.t.id, Expand(ab.t.shape, 1, d[2])) ELSE ab.t
            IN MaybeRetrieve(BinT(c.g, k2, abx, c.t), TRUE) :
              i \in InnerShapes(d), l2 \in PlainLeaves(d),
              k1 \in {"Add", "Mul"}, k2 \in {"Add", "LessThan", "Mod"} } :
          d \in DimLists }
  \cup
  UNION { { LET a == NewLeaf(EmptyGraph, Leaf("Function", Tracker(d)))
                b == NewLeaf(a.g, Leaf("Function", Tracker(d)))
                ab == BinT(b.g, k1, a.t, b.t)
            IN MaybeRetrieve(UnT(ab.g, o.kind, o.ax, ab.t), TRUE) :
              k1 \in {"Add", "Mul"}, o \in UnaryOps(d) } :
          d \in DimLists }

\* a node with three operands
TernGraphs ==
  { LET a == NewLeaf(EmptyGraph, Leaf("Function", Tracker(d)))
        b == NewLeaf(a.g, Leaf("Function", Tracker(d)))
        c == NewLeaf(b.g, Leaf("Function", Tracker(d)))
    IN MaybeRetrieve(NewOp(c.g, Op(k), <<a.t, b.t, c.t>>, Tracker(d)), TRUE) :
      d \in DimLists, k \in {"Add", "Function"} }

\* one tensor read by two nodes, through the same tracker or through two
FanGraphs ==
  { LET a == NewLeaf(EmptyGraph, Leaf("Function", Tracker(<<n>>)))
        x == UnT(a.g, "Recip", 0, a.t)
        gx == MaybeRetrieve(x, TRUE)
        a2 == IF ex THEN GT(a.t.id, Expand(a.t.shape, 1, 2)) ELSE a.t
    IN MaybeRetrieve(UnT(gx, "Recip", 0, a2), TRUE) :
      n \in 1..MaxDim, ex \in BOOLEAN }
  \cup
  \* the second reader takes output slot 1 of the tensor
  { LET a == NewLeaf(EmptyGraph, Leaf("Function", Tracker(<<n>>)))
        gx == MaybeRetrieve(UnT(a.g, "Recip", 0, a.t), TRUE)
        id == NextNode(gx)
    IN Retrieve(AddEdge(AddNode(gx, Op("Recip")), a.t.id, id, 0, 1, a.t.shape),
                GT(id, a.t.shape)) :
      n \in 1..MaxDim }

\* graphs with a Schedule edge: between two tensors without consumers, and
\* next to the data edge of a tensor that is read through one tracker or two
SchedGraphs ==
  { LET a == NewLeaf(EmptyGraph, Leaf("Function", Tracker(<<n>>)))
        b == NewLeaf(MaybeRetrieve(a, ra),
                     Leaf(k, IF k = "Constant" THEN R0 ELSE Tracker(<<m>>)))
    IN AddSchedule(MaybeRetrieve(b, TRUE), a.t.id, b.t.id) :
      n \in 1..MaxDim, m \in 1..MaxDim, ra \in BOOLEAN,
      k \in {"Function", "Constant"} }
  \cup
  { LET a == NewLeaf(EmptyGraph, Leaf("Function", Tracker(<<n>>)))
        x == UnT(a.g, "Recip", 0, a.t)
        gx == AddSchedule(MaybeRetrieve(x, TRUE), a.t.id, x.t.id)
        a2 == IF ex THEN GT(a.t.id, Expand(a.t.shape, 1, 2)) ELSE a.t
    IN IF two THEN MaybeRetrieve(UnT(gx, "Recip", 0, a2), TRUE) ELSE gx :
      n \in 1..MaxDim, ex \in BOOLEAN, two \in BOOLEAN }

InputGraphs ==
  IsoGraphs \cup UnGraphs \cup BinGraphs \cup TwoGraphs \cup TernGraphs \cup FanGraphs
    \cup SchedGraphs

\* ---------------------------------------------------------------- run_model
\* the greatest number of layers (weight tensors) of the Model
MaxWeights == 3

\* The state of run_model after `model.forward(input).retrieve()`, for a Model
\* of n layers: the weight tensors made by initialize, the input tensor, one
\* operation per layer (and an activation between layers), the output marked
\* for retrieval. The val of a Function node tells the tensors apart: 0 is
\* the input, k the weight of layer k, n + 1 the target.
Trainer(n, relu) ==
  LET RECURSIVE initialize(_, _)
      initialize(g, k) ==
        IF k > n THEN [g |-> g, ws |-> <<>>]
        ELSE LET r == initialize(AddNode(g, [Op("Function") EXCEPT !.val = k]), k + 1)
             IN [g |-> r.g, ws |-> <<NextNode(g)>> \o r.ws]
      RECURSIVE forward(_, _, _)
      forward(g, h, ws) ==
        IF ws = <<>> THEN [g |-> g, t |-> h]
        ELSE LET m == BinT(g, "Mul", h, GT(Head(ws), h.shape))
                 a == IF relu /\ Len(ws) > 1 THEN BinT(m.g, "LessThan", m.t, m.t) ELSE m
             IN forward(a.g, a.t, Tail(ws))
      model == initialize(EmptyGraph, 1)
      input == NewTensor(model.g, <<1>>)
      out == forward(input.g, input.t, model.ws)
  IN [pc |-> "built", cx |-> Retrieve(out.g, out.t), input |-> input.t.id,
      output |-> out.t, weights |-> model.ws,
      cx_og |-> EmptyGraph, remap |-> <<>>, input_id |-> None,
      gfs |-> [graph |-> EmptyGraph, input_id |-> None, weights |-> <<>>],
      copy |-> [graph |-> EmptyGraph, input_id |-> None, weights |-> <<>>]]

\* The identities a copy can give to the nodes S of the graph it copies: the
\* positions of the nodes counted from the first, counted from the last, or
\* either of them shifted by one.
Renumberings(S) ==
  LET n == Cardinality(S)
      Rank(x) == Cardinality({ y \in S : y < x })
  IN { [x \in S |-> Rank(x)],
       [x \in S |-> n - 1 - Rank(x)],
       [x \in S |-> (Rank(x) + 1) % n],
       [x \in S |-> (n - Rank(x)) % n] }

\* copy_graph_roughly(&g): the deep copy of g whose nodes are numbered by f,
\* and f, the remapping of the node identities
copy_graph_roughly(g, f) ==
  LET ids == 0..(Cardinality(DOMAIN f) - 1)
      old(i) == CHOOSE x \in DOMAIN f : f[x] = i
      marked == { f[x] : x \in DOMAIN g.to_retrieve \cap DOMAIN f }
  IN [g |-> [nodes |-> [i \in ids |-> g.nodes[old(i)]],
             free_node |-> <<>>,
             outl |-> [i \in ids |-> g.outl[old(i)]],
             inl |-> [i \in ids |-> g.inl[old(i)]],
             edges |-> [e \in DOMAIN g.edges |->
                          IF g.edges[e].src = None THEN VacantEdge
                          ELSE [g.edges[e] EXCEPT !.src = f[@], !.dst = f[@]]],
             free_edge |-> g.free_edge,
             to_retrieve |-> [i \in marked |-> g.to_retrieve[old(i)]]],
      remap |-> f]

\* a copy that keeps the identities of the graph it was copied from
CopyKeepsIdentities(self, f) ==
  [graph |-> copy_graph_roughly(self.graph, f).g,
   input_id |-> self.input_id,
   weights |-> self.weights]

\* GraphForSnark::copy_graph_roughly
GraphForSnarkCopy(self, f) ==
  LET c == copy_graph_roughly(self.graph, f) IN
  [graph |-> c.g,
   input_id |-> c.remap[self.input_id],
   weights |-> [k \in 1..Len(self.weights) |->
                  [id |-> c.remap[self.weights[k].id], data |-> self.weights[k].data]]]

\* run_model has not been called
NoSnark == [Trainer(0, FALSE) EXCEPT !.pc = "idle", !.cx = EmptyGraph, !.input = None,
                                     !.output = None]

\* ------------------------------------------------------------------ state
VARIABLES
  graph,             \* the Graph being compiled (StableGraph and to_retrieve)
  inputs_tracker,    \* InputsTracker {new_inputs, constants}
  sizes,             \* the precalculated physical sizes
  edge_src_indices,  \* edge index -> the logical index it was made for
  pi,                \* the visit order
  idx,               \* the position of the loop in pi (1-based)
  pc,                \* "validate", "sizes", "toposort", "loop", "done", "aborted"
  err,               \* the failure that ended the pass, "none" otherwise
  orig,              \* the input graph, as it was handed to the pass
  little,            \* original node -> the list of little nodes built for it
  snark              \* run_model: its position, its graph cx and its snapshots

vars ==
  <<graph, inputs_tracker, sizes, edge_src_indices, pi, idx, pc, err, orig, little,
    snark>>

Init ==
  /\ orig \in InputGraphs
  /\ graph = orig
  /\ inputs_tracker = EmptyTracker
  /\ sizes = <<>>
  /\ edge_src_indices = <<>>
  /\ pi = <<>>
  /\ idx = 1
  /\ pc = "validate"
  /\ err = "none"
  /\ little = <<>>
  /\ snark = NoSnark

Abort(e) ==
  /\ pc' = "aborted"
  /\ err' = e

\* (UniformOutShapes, Scalarize): the first compiler of the pair
Validate ==
  /\ pc = "validate"
  /\ IF UniformOutShapes(graph)
       THEN pc' = "sizes" /\ err' = err
       ELSE Abort("NonUniformOutgoingShapes")
  /\ UNCHANGED <<graph, inputs_tracker, sizes, edge_src_indices, pi, idx, orig, little,
               snark>>

\* let sizes = ...; let mut edge_src_indices = HashMap::new()
PrecomputeSizes ==
  /\ pc = "sizes"
  /\ LET e == FirstSizeError(NodeIdentifiers(graph), graph) IN
     IF e = "none"
       THEN sizes' = ComputeSizes(graph) /\ pc' = "toposort" /\ err' = err
       ELSE sizes' = sizes /\ Abort(e)
  /\ UNCHANGED <<graph, inputs_tracker, edge_src_indices, pi, idx, orig, little,
               snark>>

\* let pi = { toposort; reverse }
SortNodes ==
  /\ pc = "toposort"
  /\ pi' = ComputePi(graph)
  /\ idx' = 1
  /\ pc' = "loop"
  /\ UNCHANGED <<graph, inputs_tracker, sizes, edge_src_indices, err, orig, little,
               snark>>

\* a loop that stays on the node it has just replaced
SameNode(i) == i

\* for x in pi: the position of the next iteration
NextInPi(i) == i + 1

\* the end of one iteration of for x in pi: mark_retrieve and remove_node
\* after a handler that returned, the abort after one that panicked
Step(x, r) ==
  LET m == IF r.err = "none" THEN mark_retrieve(x, r.little, r.g)
           ELSE [g |-> r.g, err |-> r.err]
      ok == m.err = "none"
  IN /\ graph' = IF ok THEN RemoveNode(m.g, x) ELSE m.g
     /\ edge_src_indices' = r.esi
     /\ inputs_tracker' = r.it
     /\ little' = IF r.made THEN (x :> r.little) @@ little ELSE little
     /\ idx' = IF ok THEN NextInPi(idx) ELSE idx
     /\ pc' = IF ok THEN "loop" ELSE "aborted"
     /\ err' = m.err
     /\ UNCHANGED <<sizes, pi, orig, snark>>

Visiting == pc = "loop" /\ idx <= Len(pi)

VisitSource ==
  /\ Visiting
  /\ Len(Incoming(graph, pi[idx])) = 0
  /\ Step(pi[idx], source_op(pi[idx], sizes[pi[idx]], edge_src_indices,
                             inputs_tracker, graph))

VisitUnary ==
  /\ Visiting
  /\ Len(Incoming(graph, pi[idx])) = 1
  /\ Step(pi[idx], unary_op(pi[idx], sizes[pi[idx]], Incoming(graph, pi[idx]),
                            edge_src_indices, inputs_tracker, graph))

VisitBinary ==
  /\ Visiting
  /\ Len(Incoming(graph, pi[idx])) = 2
  /\ Step(pi[idx], binary_op(pi[idx], sizes[pi[idx]], Incoming(graph, pi[idx]),
                             edge_src_indices, inputs_tracker, graph))

VisitOtherArity ==
  /\ Visiting
  /\ Len(Incoming(graph, pi[idx])) > 2
  /\ Step(pi[idx], Result(graph, edge_src_indices, inputs_tracker,
                          "UnsupportedNodeArity", <<>>, FALSE))

\* return inputs_tracker
Return ==
  /\ pc = "loop"
  /\ idx > Len(pi)
  /\ pc' = "done"
  /\ UNCHANGED <<graph, inputs_tracker, sizes, edge_src_indices, pi, idx, err, orig, little,
               snark>>

Next ==
  \/ Validate
  \/ PrecomputeSizes
  \/ SortNodes
  \/ VisitSource
  \/ VisitUnary
  \/ VisitBinary
  \/ VisitOtherArity
  \/ Return

\* the pass has returned or has panicked
Ended == pc \in {"done", "aborted"}

Spec == Init /\ [][Next]_vars

\* The pass is a sequential program that runs until it returns or panics: a
\* step that can be taken is eventually taken. This is weak fairness of Next,
\* with the enabling condition of Next written out: some action of Next is
\* enabled exactly when the pass has not ended.
FairSpec == Init /\ [][Next]_vars /\ ([]<>Ended \/ []<><<Next>>_vars)

\* ------------------------------------------------------- run_model: steps
\* let (cx_og, remap) = copy_graph_roughly(&cx); let input_id = remap[&input.id]
TakeSnapshot ==
  /\ snark.pc = "built"
  /\ \E f \in Renumberings(LiveNodes(snark.cx)) :
       LET c == copy_graph_roughly(snark.cx, f) IN
       snark' = [snark EXCEPT !.pc = "snapped", !.cx_og = c.g, !.remap = c.remap,
                              !.input_id = c.remap[snark.input]]
  /\ UNCHANGED <<graph, inputs_tracker, sizes, edge_src_indices, pi, idx, pc, err,
                 orig, little>>

\* The rest of run_model: the target tensor, the loss and the gradient of
\* every weight are added to cx; the weights are read from cx and the
\* TrainedGraph is assembled around the snapshot.
FinishTraining ==
  /\ snark.pc = "snapped"
  /\ LET RECURSIVE grads(_, _)
         grads(g, ws) ==
           IF ws = <<>> THEN g
           ELSE LET d == BinT(g, "Mul", GT(NextNode(g) - 1, snark.output.shape),
                              GT(Head(ws), snark.output.shape))
                IN grads(Retrieve(d.g, d.t), Tail(ws))
         n == Len(snark.weights)
         target == [g |-> AddNode(snark.cx, [Op("Function") EXCEPT !.val = n + 1]),
                    t |-> GT(NextNode(snark.cx), snark.output.shape)]
         loss == BinT(target.g, "Add", snark.output, target.t)
         cx == grads(Retrieve(loss.g, loss.t), snark.weights)
         cx_weights_vec == [k \in 1..n |->
                              [id |-> snark.weights[k], data |-> cx.nodes[snark.weights[k]].val]]
         weights_vec == [k \in 1..n |->
                           [id |-> snark.remap[cx_weights_vec[k].id],
                            data |-> cx_weights_vec[k].data]]
     IN snark' = [snark EXCEPT !.pc = "trained", !.cx = cx,
                               !.gfs = [graph |-> snark.cx_og,
                                        input_id |-> snark.input_id,
                                        weights |-> weights_vec]]
  /\ UNCHANGED <<graph, inputs_tracker, sizes, edge_src_indices, pi, idx, pc, err,
                 orig, little>>

\* trained.graph.copy_graph_roughly()
CopySnapshot ==
  /\ snark.pc = "trained"
  /\ \E f \in Renumberings(LiveNodes(snark.gfs.graph)) :
       snark' = [snark EXCEPT !.pc = "copied", !.copy = GraphForSnarkCopy(snark.gfs, f)]
  /\ UNCHANGED <<graph, inputs_tracker, sizes, edge_src_indices, pi, idx, pc, err,
                 orig, little>>

\* run_model is called with a Model of one to MaxWeights layers
SnapInit ==
  /\ snark \in { Trainer(n, relu) : n \in 1..MaxWeights, relu \in BOOLEAN }
  /\ orig = EmptyGraph
  /\ graph = orig
  /\ inputs_tracker = EmptyTracker
  /\ sizes = <<>>
  /\ edge_src_indices = <<>>
  /\ pi = <<>>
  /\ idx = 1
  /\ pc = "validate"
  /\ err = "none"
  /\ little = <<>>

SnapNext ==
  \/ TakeSnapshot
  \/ FinishTraining
  \/ CopySnapshot

SnapSpec == SnapInit /\ [][SnapNext]_vars

\* ------------------------------------------------- vocabulary of the claims

\* the nodes whose iteration of the loop has completed (little nodes built,
\* retrieval moved, node removed)
Visited == { pi[k] : k \in 1..(idx - 1) }

OrigNodes == LiveNodes(orig)

Marked(x) == x \in DOMAIN orig.to_retrieve

\* the element count of a node of the input graph: through its retrieval
\* shape when it is marked, through an outgoing edge otherwise
ElementCounts(x) ==
  IF Marked(x) THEN { NPhysicalElements(orig.to_retrieve[x].shape) }
  ELSE { NPhysicalElements(orig.edges[e].shape) : e \in Range(DataOut(orig, x)) }

Arity(kind) ==
  IF kind \in SourceKinds THEN 0
  ELSE IF kind \in UnaryKinds THEN 1
  ELSE IF kind \in BinaryKinds THEN 2
  ELSE None

\* every logical index of the shape is a valid one (no padding hole)
AllValid(sh) ==
  \A L \in 0..(NElements(sh) - 1) : ValidExpression(sh, L) = 1

ValidNode(g, x) ==
  LET kind == g.nodes[x].kind
      ins == Incoming(g, x)
  IN /\ Arity(kind) # None
     /\ Len(ins) = Arity(kind)
     /\ \A j \in 1..Len(ins) : ins[j].inp = j - 1 /\ ins[j].out = 0
     /\ x \in DOMAIN g.to_retrieve \/ DataOut(g, x) # <<>>
     /\ x \in DOMAIN g.to_retrieve =>
          g.to_retrieve[x].out = 0 /\ IsStatic(g.to_retrieve[x].shape)
     /\ \A e \in Range(DataOut(g, x)) :
          IsStatic(g.edges[e].shape) /\ AllValid(g.edges[e].shape)
     /\ AllEqualOut(g, x)
     /\ Cardinality(ElementCounts(x)) = 1
     /\ \A n \in ElementCounts(x) :
          /\ kind = "Constant" => n = 1
          /\ kind \in PointwiseKinds =>
               \A j \in 1..Len(ins) : NElements(ins[j].shape) = n
          /\ kind \in ReduceKinds =>
               LET dims == ShapeUsize(ins[1].shape)
                   ax == g.nodes[x].axis
               IN /\ ax < Len(dims)
                  /\ dims[ax + 1] > 1
                  /\ n * dims[ax + 1] = NElements(ins[1].shape)

\* the input graph is made of the supported vocabulary only, with the arities,
\* shapes and sizes the pass requires
ValidInput == \A x \in OrigNodes : ValidNode(orig, x)

\* the edges of g that enter node n at input slot s
InEdgesAt(g, n, s) == { e \in Range(DataIn(g, n)) : g.edges[e].inp = s }

\* ------------------------------------------------------------------ claims

OperandElement(T, ys, j) == ys[IndexExpression(T, j) + 1]

\* C2: on a valid input graph, for a pointwise node x with an operand edge
\* from y at slot s with shape T, the pass ends with the little node of every
\* logical position j of x having exactly one incoming edge at slot s, and
\* that edge comes from the little node of y that stands for the element T
\* maps position j to (the wrapped element when T broadcasts).
C2_PointwiseOperandWiring ==
  (Ended /\ ValidInput) =>
    \A x \in OrigNodes :
      orig.nodes[x].kind \in PointwiseKinds =>
        \A k \in 1..Len(Incoming(orig, x)) :
          LET inc == Incoming(orig, x)[k] IN
          /\ x \in DOMAIN little
          /\ inc.source \in DOMAIN little
          /\ \A j \in 0..(NElements(inc.shape) - 1) :
               /\ j < Len(little[x])
               /\ IndexExpression(inc.shape, j) < Len(little[inc.source])
               /\ \E e \in InEdgesAt(graph, little[x][j + 1], inc.inp) :
                    /\ InEdgesAt(graph, little[x][j + 1], inc.inp) = {e}
                    /\ graph.edges[e].src =
                         OperandElement(inc.shape, little[inc.source], j)

\* C3: whenever the list of little nodes of a node x of the input graph has
\* been built, it has exactly size(x) entries, all different: size(x) is the
\* physical element count of x's retrieval shape when x is retrieval-marked,
\* and of the shape of its outgoing data edges otherwise.
C3_LittleListLength ==
  \A x \in DOMAIN little :
    /\ Len(little[x]) \in ElementCounts(x)
    /\ Cardinality(Range(little[x])) = Len(little[x])

\* lists of more than one element were built for a retrieval-marked node and
\* for a node that gets its size from an outgoing edge, on a valid input
C3_Witness ==
  /\ ValidInput
  /\ \E x \in DOMAIN little, y \in DOMAIN little :
       /\ Marked(x) /\ Len(little[x]) > 1
       /\ ~Marked(y) /\ Len(little[y]) > 1

OrigInputs == { x \in OrigNodes : orig.nodes[x].kind = "Function" }
OrigConstants == { x \in OrigNodes : orig.nodes[x].kind = "Constant" }

\* the nodes the data edges of n at slot s of consumer c come from
SourcesAt(c, s) == { graph.edges[e].src : e \in InEdgesAt(graph, c, s) }

C5_ConstantsMapComplete ==
  pc = "done" =>
    /\ \A c \in OrigConstants :
         /\ c \in DOMAIN little
         /\ Len(little[c]) = 1
         /\ little[c][1] \in DOMAIN inputs_tracker.constants
         /\ inputs_tracker.constants[little[c][1]] = orig.nodes[c].val
         /\ little[c][1] \in LiveNodes(graph)
         /\ graph.nodes[little[c][1]].kind = "ConstantOp"
    /\ \A n \in DOMAIN inputs_tracker.constants :
         \E c \in OrigConstants : n = little[c][1]
    /\ \A c1 \in OrigConstants, c2 \in OrigConstants :
         little[c1][1] = little[c2][1] => c1 = c2

\* the pass has returned for a graph with two constants of different literals
C5_Witness ==
  /\ pc = "done"
  /\ \E c1 \in OrigConstants, c2 \in OrigConstants :
       orig.nodes[c1].val # orig.nodes[c2].val

\* the nodes of the fold chain that ends in node n: n and the nodes before it
\* along the slot-0 edges, up to the reduced source y
RECURSIVE ChainOf(_, _)
ChainOf(n, y) ==
  LET prev == SourcesAt(n, 0) \ {y} IN
  IF prev = {} THEN {n}
  ELSE {n} \cup ChainOf(CHOOSE p \in prev : TRUE, y)

\* the logical indices the Edge-Index Tracker holds for the chain ending in n
ChainIndices(n, y) ==
  { edge_src_indices[e] :
      e \in { e2 \in UNION { InEdgesAt(graph, c, 1) : c \in ChainOf(n, y) } :
                e2 \in DOMAIN edge_src_indices } }

\* x is a Reduce node of the input graph and its iteration has just completed
JustReduced(x) ==
  /\ pc = "loop"
  /\ idx > 1
  /\ pi[idx - 1] = x
  /\ orig.nodes[x].kind \in ReduceKinds

\* C6: on a valid input graph, once a Reduce node over axis ax of a source
\* with dims d has been expanded (n = d[ax], front and back the products of
\* the dims before and after ax), it has front*back little nodes and the
\* chain of output position i = f*back + b holds in the Edge-Index Tracker
\* exactly the source indices f*back*n + k*back + b, k in 0..n-1.
C6_ReduceIndexDecomposition ==
  ValidInput =>
    \A x \in OrigNodes :
      JustReduced(x) =>
        LET yy == Incoming(orig, x)[1]
            d == ShapeUsize(yy.shape)
            ax == orig.nodes[x].axis
            n == d[ax + 1]
            front == Product(Take(d, ax))
            back == Product(Skip(d, ax + 1))
        IN /\ Len(little[x]) = front * back
           /\ \A f \in 0..(front - 1), b \in 0..(back - 1) :
                ChainIndices(little[x][f * back + b + 1], yy.source) =
                  { f * back * n + k * back + b : k \in 0..(n - 1) }

\* x is a Reduce node of the input graph whose reduced axis has length <= 1
DegenerateReduce(x) ==
  /\ orig.nodes[x].kind \in ReduceKinds
  /\ Len(Incoming(orig, x)) = 1
  /\ LET sh == Incoming(orig, x)[1].shape
         ax == orig.nodes[x].axis
     IN /\ IsStatic(sh)
        /\ ax < Len(ShapeUsize(sh))
        /\ ShapeUsize(sh)[ax + 1] <= 1

\* the pass has stopped in the iteration of node x
AbortedAt(x) == pc = "aborted" /\ pi # <<>> /\ idx <= Len(pi) /\ pi[idx] = x

\* C7: with a Reduce node x whose reduced axis has length <= 1 in the input
\* graph, the pass never returns; no list of little nodes is ever built for
\* x, x is never removed, and the iteration of x ends the pass with the
\* degenerate-axis failure.
C7_DegenerateAxisAborts ==
  \A x \in OrigNodes :
    DegenerateReduce(x) =>
      /\ pc # "done"
      /\ x \notin DOMAIN little
      /\ x \notin Visited
      /\ graph.nodes[x] = orig.nodes[x]
      /\ AbortedAt(x) => err = "DegenerateReduceAxis"

\* the pass was stopped by a Reduce node over an axis of length 1
C7_Witness ==
  \E x \in OrigNodes :
    DegenerateReduce(x) /\ AbortedAt(x) /\ err = "DegenerateReduceAxis"

\* x has one or two incoming data edges and a kind the pass has no case for
UnsupportedOp(x) ==
  \/ Len(Incoming(orig, x)) = 1 /\ orig.nodes[x].kind \notin UnaryKinds
  \/ Len(Incoming(orig, x)) = 2 /\ orig.nodes[x].kind \notin BinaryKinds

\* C8: with a node x of one incoming data edge that is not Recip, SumReduce
\* or MaxReduce, or of two that is not Add, Mul or LessThan, the pass never
\* returns, no little nodes are ever built for x and x is never removed from
\* the graph.
C8_UnsupportedOpRejected ==
  \A x \in OrigNodes :
    UnsupportedOp(x) =>
      /\ pc # "done"
      /\ x \notin DOMAIN little
      /\ x \notin Visited
      /\ graph.nodes[x] = orig.nodes[x]

\* the pass was stopped by a two-operand node of an unsupported kind, after
\* it had expanded another node
C8_Witness ==
  \E x \in OrigNodes :
    /\ UnsupportedOp(x)
    /\ AbortedAt(x)
    /\ err = "UnsupportedBinaryOp"
    /\ idx > 1

\* the nodes of the fold chains of Reduce node x that are not their last node
IntermediateChainNodes(x) ==
  UNION { ChainOf(n, Incoming(orig, x)[1].source) \ {n} : n \in Range(little[x]) }

\* C10: on a valid input graph, every little node of a retrieval-marked node
\* whose iteration has completed is in the retrieval set with output slot 0
\* and the trivial shape; no intermediate node of a fold chain is in the
\* retrieval set; and no little node of a node that was not retrieval-marked
\* is in the retrieval set.
C10_RetrievalInheritance ==
  ValidInput =>
    /\ \A x \in Visited :
         Marked(x) =>
           \A n \in Range(little[x]) :
             /\ n \in DOMAIN graph.to_retrieve
             /\ graph.to_retrieve[n] = [out |-> 0, shape |-> R0]
    /\ \A x \in DOMAIN little :
         orig.nodes[x].kind \in ReduceKinds =>
           \A n \in IntermediateChainNodes(x) : n \notin DOMAIN graph.to_retrieve
    /\ \A x \in DOMAIN little :
         ~Marked(x) =>
           \A n \in Range(little[x]) : n \notin DOMAIN graph.to_retrieve

\* some node of g has two outgoing data edges that differ in their output
\* slot or in their shape
DiffersSomewhere(g) ==
  \E e1 \in DataEdges(g), e2 \in DataEdges(g) :
    /\ g.edges[e1].src = g.edges[e2].src
    /\ \/ g.edges[e1].out # g.edges[e2].out
       \/ g.edges[e1].shape # g.edges[e2].shape

\* nothing of the pass has happened to the graph or to the trackers
Untouched ==
  /\ graph = orig
  /\ inputs_tracker = EmptyTracker
  /\ edge_src_indices = <<>>
  /\ little = <<>>

\* C11: the validator fails exactly when some node of the input graph has
\* two outgoing data edges with different (output slot, shape) pairs,
\* Schedule edges not counted; while it runs, after it has succeeded and
\* after it has failed the graph and its retrieval set are the input graph's.
C11_ValidatorIffAndPure ==
  /\ pc # "validate" =>
       (err = "NonUniformOutgoingShapes" <=> DiffersSomewhere(orig))
  /\ (pc \in {"validate", "sizes"} \/ err = "NonUniformOutgoingShapes") =>
       Untouched

\* the validator has failed on a graph in which the node with the differing
\* data edges also has a Schedule edge
C11_Witness ==
  /\ pc = "aborted"
  /\ err = "NonUniformOutgoingShapes"
  /\ \E e \in LiveEdges(orig) \ DataEdges(orig), e1 \in DataEdges(orig) :
       orig.edges[e].src = orig.edges[e1].src

\* the original nodes whose iteration has not completed
Unvisited == OrigNodes \ Visited

\* C12: when the loop is about to visit node x, every node that consumed x
\* in the input graph has been visited and is gone, every outgoing data edge
\* of x ends at a node that is not an unvisited original one (a node the pass
\* made), and every incoming data edge of x starts at an original node that
\* has not been visited and is as it was.
C12_ReverseTopologicalVisit ==
  Visiting =>
    LET x == pi[idx] IN
    /\ x \in Unvisited
    /\ graph.nodes[x] = orig.nodes[x]
    /\ \A e \in DataEdges(orig) :
         orig.edges[e].src = x => orig.edges[e].dst \in Visited
    /\ \A e \in Range(DataOut(graph, x)) :
         /\ graph.edges[e].dst \notin Unvisited
         /\ graph.edges[e].dst \in LiveNodes(graph)
    /\ \A e \in Range(DataIn(graph, x)) :
         /\ graph.edges[e].src \in Unvisited
         /\ graph.nodes[graph.edges[e].src] = orig.nodes[graph.edges[e].src]
         /\ e \in DataEdges(orig) /\ orig.edges[e] = graph.edges[e]

\* the loop is about to visit a node that has both incoming data edges and
\* outgoing data edges, after its consumer was expanded
C12_Witness ==
  /\ Visiting
  /\ DataOut(graph, pi[idx]) # <<>>
  /\ DataIn(graph, pi[idx]) # <<>>
  /\ Visited # {}

\* the nodes the pass has made: the little nodes and the inner nodes of the
\* fold chains
Created ==
  UNION { Range(little[v]) : v \in DOMAIN little }
    \cup UNION { IntermediateChainNodes(v) :
                   v \in { w \in DOMAIN little : orig.nodes[w].kind \in ReduceKinds } }

\* C13: between two iterations of the loop and after the pass has returned,
\* the original nodes in the graph are exactly the unvisited ones, unchanged;
\* the index of a visited node is vacant or belongs to a node the pass made,
\* every edge joins nodes that are in the graph, and after the return every
\* node of the graph is one the pass made.
C13_OriginalsDeletedWhenReplaced ==
  pc \in {"loop", "done"} =>
    /\ \A x \in Unvisited :
         x \in LiveNodes(graph) /\ graph.nodes[x] = orig.nodes[x] /\ x \notin Created
    /\ \A x \in Visited : x \in LiveNodes(graph) => x \in Created
    /\ LiveNodes(graph) \subseteq Unvisited \cup Created
    /\ \A e \in LiveEdges(graph) :
         graph.edges[e].src \in LiveNodes(graph) /\ graph.edges[e].dst \in LiveNodes(graph)
    /\ pc = "done" => Unvisited = {} /\ LiveNodes(graph) \subseteq Created

\* the pass has returned after visiting several nodes, and the index of a
\* deleted original node is in use by a node the pass made
C13_Witness ==
  /\ pc = "done"
  /\ Cardinality(Visited) > 1
  /\ \E x \in Visited : x \in LiveNodes(graph)

\* x has no incoming data edge and is neither an Input nor a Constant
UnsupportedSource(x) ==
  Incoming(orig, x) = <<>> /\ orig.nodes[x].kind \notin SourceKinds

\* C14: the iteration that visits a node without incoming data edges that
\* is neither an Input (Function) nor a Constant ends the pass with the
\* unsupported-source failure, and leaves the graph, the list of little
\* nodes, the Edge-Index Tracker and the Inputs/Constants Tracker as they
\* were: no little node is made and nothing is recorded.
C14_UnsupportedSourceAborts ==
  [][ (Visiting /\ UnsupportedSource(pi[idx])) =>
        /\ pc' = "aborted"
        /\ err' = "UnsupportedSourceNodeKind"
        /\ graph' = graph
        /\ little' = little
        /\ inputs_tracker' = inputs_tracker
        /\ edge_src_indices' = edge_src_indices ]_vars

\* the pass was stopped by a leaf of an unsupported kind after it had
\* expanded another node
C14_Witness ==
  \E x \in OrigNodes :
    /\ UnsupportedSource(x)
    /\ AbortedAt(x)
    /\ err = "UnsupportedSourceNodeKind"
    /\ Visited # {}

\* x is a node of the input graph and its iteration has just completed
JustVisited(x) == pc = "loop" /\ idx > 1 /\ pi[idx - 1] = x

\* C15: when the loop is about to visit node x, every outgoing data edge of
\* x has an entry in the Edge-Index Tracker, and for an edge that ends at
\* little node j of a pointwise consumer the entry is j.
C15_EdgeIndexCoverage ==
  Visiting =>
    \A e \in Range(DataOut(graph, pi[idx])) :
      /\ e \in DOMAIN edge_src_indices
      /\ \A c \in DOMAIN little :
           orig.nodes[c].kind \in PointwiseKinds =>
             \A j \in 1..Len(little[c]) :
               graph.edges[e].dst = little[c][j] => edge_src_indices[e] = j - 1

\* C16: right after a pointwise node x has been expanded, every operand edge
\* that enters little node j of x is in the Edge-Index Tracker under its own
\* identity, with value j.
C16_PointwiseRecordsEveryEdge ==
  \A x \in OrigNodes :
    (JustVisited(x) /\ orig.nodes[x].kind \in PointwiseKinds) =>
      \A j \in 1..Len(little[x]) :
        \A e \in Range(DataIn(graph, little[x][j])) :
          e \in DOMAIN edge_src_indices /\ edge_src_indices[e] = j - 1

\* the axis-element edges the reduction of x made from its source y that are
\* still in the graph: the slot-1 edges from y into the chain nodes
AxisEdges(x) ==
  LET y == Incoming(orig, x)[1].source IN
  { e \in UNION { InEdgesAt(graph, c, 1) :
                    c \in UNION { ChainOf(n, y) : n \in Range(little[x]) } } :
      graph.edges[e].src = y /\ e \in DOMAIN edge_src_indices }

\* C17: every axis-element edge a Reduce node x made from its source y, with
\* recorded logical index L, carries a shape that sends L to the physical
\* index the shape of the original edge from y to x sends it to; and once the
\* little nodes of y exist, a little node of y that feeds the chain node of
\* that edge at slot 1 is the one at that physical index.
C17_ReduceOperandResolution ==
  \A x \in DOMAIN little :
    orig.nodes[x].kind \in ReduceKinds =>
      LET yy == Incoming(orig, x)[1] IN
      \A e \in AxisEdges(x) :
        LET p == IndexExpression(yy.shape, edge_src_indices[e]) IN
        /\ IndexExpression(graph.edges[e].shape, edge_src_indices[e]) = p
        /\ yy.source \in DOMAIN little =>
             \A n \in SourcesAt(graph.edges[e].dst, 1) :
               n \in Range(little[yy.source]) => n = little[yy.source][p + 1]

\* the data edges from the source y of a Reduce node into the chain that
\* ends in n, at any input slot
FromSource(n, y) ==
  { e \in DataEdges(graph) :
      graph.edges[e].src = y /\ graph.edges[e].dst \in ChainOf(n, y) }

\* C18: on a valid input graph, right after a Reduce node x over an axis of
\* length n > 1 has been expanded, the chain that ends in the little node of
\* each output position is a left fold: every chain node has one slot-0 and
\* one slot-1 operand, the slot-1 operand is a recorded axis element of the
\* source, and the source is referenced by the chain exactly n times, each
\* reference a recorded axis element, with n distinct indices.
C18_ReduceFoldShape ==
  ValidInput =>
    \A x \in OrigNodes :
      JustReduced(x) =>
        LET yy == Incoming(orig, x)[1]
            n == ShapeUsize(yy.shape)[orig.nodes[x].axis + 1]
        IN \A i \in 1..Len(little[x]) :
             /\ \A c \in ChainOf(little[x][i], yy.source) :
                  /\ Cardinality(InEdgesAt(graph, c, 0)) = 1
                  /\ Cardinality(InEdgesAt(graph, c, 1)) = 1
                  /\ InEdgesAt(graph, c, 1) \subseteq DOMAIN edge_src_indices
                  /\ SourcesAt(c, 1) = {yy.source}
             /\ FromSource(little[x][i], yy.source) \subseteq DOMAIN edge_src_indices
             /\ Cardinality(FromSource(little[x][i], yy.source)) = n
             /\ Cardinality(ChainIndices(little[x][i], yy.source)) = n

\* C19: on a valid input graph a step that visits a node x with outgoing data
\* edges completes, and it replaces each outgoing data edge of x by exactly one edge with the same
\* target, input slot and output slot, the trivial shape, and a little node
\* of x as its source; the target has as many operands after the step as
\* before it, and every data edge that does not touch x is left as it was.
C19_ReconnectOneForOne ==
  [][\A x \in OrigNodes :
       (ValidInput /\ Visiting /\ pi[idx] = x /\ DataOut(graph, x) # <<>>) =>
         /\ pc' = "loop" /\ idx' = idx + 1
         /\ \A e \in Range(DataOut(graph, x)) :
              LET w == graph.edges[e] IN
              /\ Cardinality({ e2 \in InEdgesAt(graph', w.dst, w.inp) :
                                 /\ graph'.edges[e2].src \in Range(little'[x])
                                 /\ graph'.edges[e2].out = w.out
                                 /\ graph'.edges[e2].shape = R0 }) = 1
              /\ Cardinality(InEdgesAt(graph', w.dst, w.inp)) = 1
              /\ Len(DataIn(graph', w.dst)) = Len(DataIn(graph, w.dst))
         /\ \A e \in DataEdges(graph) :
              (graph.edges[e].src # x /\ graph.edges[e].dst # x) =>
                e \in DataEdges(graph') /\ graph'.edges[e] = graph.edges[e]]_vars

\* e is an operand edge into little node j of a pointwise consumer, and its
\* shape has no physical element at logical index j
PaddedOperand(e) ==
  \E c \in DOMAIN little :
    /\ orig.nodes[c].kind \in PointwiseKinds
    /\ \E j \in 1..Len(little[c]) :
         /\ graph.edges[e].dst = little[c][j]
         /\ ValidExpression(graph.edges[e].shape, j - 1) = 0

MismatchedOperands(x) ==
  IF x \in DOMAIN sizes /\ orig.nodes[x].kind \in PointwiseKinds
    THEN { k \in 1..Len(Incoming(orig, x)) :
             /\ NElements(Incoming(orig, x)[k].shape) # None
             /\ NElements(Incoming(orig, x)[k].shape) # sizes[x] }
    ELSE {}

\* C21: with a pointwise node x one of whose operand edges has an element
\* count different from size(x), the pass never returns and the iteration of
\* x never completes; no little node of x ever gets an operand at the input
\* slot of such an edge; and when x has static operands and no consumer, its
\* iteration ends the pass with the operand-size failure.
C21_NoImplicitBroadcast ==
  \A x \in OrigNodes :
    MismatchedOperands(x) # {} =>
      /\ pc # "done"
      /\ x \notin Visited
      /\ x \in DOMAIN little =>
           \A k \in MismatchedOperands(x), n \in Range(little[x]) :
             InEdgesAt(graph, n, Incoming(orig, x)[k].inp) = {}
      /\ (AbortedAt(x) /\ DataOut(orig, x) = <<>>
            /\ \A k \in 1..Len(Incoming(orig, x)) :
                 IsStatic(Incoming(orig, x)[k].shape)
            /\ Len(Incoming(orig, x)) = Arity(orig.nodes[x].kind)) =>
           err = "OperandSizeMismatch"

C21_Witness ==
  \E x \in OrigNodes :
    /\ MismatchedOperands(x) # {}
    /\ AbortedAt(x)
    /\ err = "OperandSizeMismatch"
    /\ x \in DOMAIN little
    /\ \E n \in Range(little[x]) : DataIn(graph, n) # <<>>

\* the nodes of the input graph whose size cannot be taken: neither marked
\* for retrieval nor read by a data edge, or with a shape that is not static
Sizeless == { x \in OrigNodes : get_own_size(x, orig).err # "none" }

\* the pass has got past the precomputation of the sizes
SizesTaken == pc \in {"toposort", "loop", "done"} \/ (pc = "aborted" /\ pi # <<>>)

VectorConstants ==
  { x \in OrigConstants : x \in DOMAIN sizes /\ sizes[x] # 1 }

\* C23: with a Constant node x whose element count is not 1 the pass never
\* returns and the iteration of x never completes; no little node of x is
\* ever a key of the Constants map; and when x has no consumer, its iteration
\* ends the pass with the failure of the scalar-constant assertion.
C23_VectorConstantAborts ==
  \A x \in VectorConstants :
    /\ pc # "done"
    /\ x \notin Visited
    /\ x \in DOMAIN little =>
         Range(little[x]) \cap DOMAIN inputs_tracker.constants = {}
    /\ x \notin DOMAIN inputs_tracker.constants
    /\ (AbortedAt(x) /\ DataOut(orig, x) = <<>>) => err = "NonScalarConstant"

C23_Witness ==
  \E x \in VectorConstants :
    /\ AbortedAt(x)
    /\ err = "NonScalarConstant"
    /\ x \in DOMAIN little
    /\ Len(little[x]) > 1

\* the nodes of the input graph with three or more incoming data edges
OverArity == { x \in OrigNodes : Len(Incoming(orig, x)) >= 3 }

\* every little node of the visited node x has an operand at every input
\* slot of x, and it comes from the producer that fed that slot of x, or from
\* a little node of that producer
OperandsFollowSlots(x) ==
  \A n \in Range(little[x]), k \in 1..Len(Incoming(orig, x)) :
    LET inc == Incoming(orig, x)[k] IN
    /\ inc.inp = k - 1
    /\ SourcesAt(n, inc.inp) # {}
    /\ SourcesAt(n, inc.inp) \subseteq
         {inc.source} \cup (IF inc.source \in DOMAIN little
                              THEN Range(little[inc.source]) ELSE {})

\* a node with three or more incoming data edges is never expanded: the pass
\* does not return, and the iteration of the node ends it with the arity
\* failure
OverArityAborts ==
  \A x \in OverArity :
    /\ pc # "done"
    /\ x \notin Visited
    /\ x \notin DOMAIN little
    /\ AbortedAt(x) => err = "UnsupportedNodeArity"

RECURSIVE Peel(_, _)
Peel(g, S) ==
  LET free == { n \in S :
                  \A k \in 1..Len(g.inl[n]) : g.edges[g.inl[n][k]].src \notin S }
  IN IF free = {} THEN S ELSE Peel(g, S \ free)

\* the number of operands the operator of a node made by the pass takes
MadeArity(kind) ==
  IF kind \in {"InputOp", "ConstantOp"} THEN 0
  ELSE IF kind = "Recip" THEN 1
  ELSE 2

\* node n of the graph has one operand at each of the input slots its kind
\* takes, and no other operand
WellFormed(n) ==
  /\ Len(DataIn(graph, n)) = MadeArity(graph.nodes[n].kind)
  /\ \A s \in 0..(MadeArity(graph.nodes[n].kind) - 1) :
       Cardinality(InEdgesAt(graph, n, s)) = 1

C26_NoDanglingRetrieval ==
  /\ pc = "done" => DOMAIN graph.to_retrieve \subseteq LiveNodes(graph)
  /\ \A x \in OrigNodes : JustVisited(x) => x \notin DOMAIN graph.to_retrieve

\* the visit order is a list of the nodes of the input graph without
\* repetition, and the loop is at one of its positions or past its end
VisitOrderOk ==
  pi # <<>> =>
    /\ Len(pi) = Cardinality(OrigNodes)
    /\ Range(pi) = OrigNodes
    /\ idx \in 1..(Len(pi) + 1)

\* C27: the pass ends, by returning or by aborting; the loop runs over the
\* nodes of the input graph, each once; the node of every iteration is an
\* original node not visited before, still as it was in the input graph, and
\* not a node the pass has made; and an iteration that completes moves on to
\* the next position.
C27_Termination ==
  /\ <>Ended
  /\ []VisitOrderOk
  /\ [][Visiting =>
          /\ pi[idx] \in Unvisited
          /\ graph.nodes[pi[idx]] = orig.nodes[pi[idx]]
          /\ pi[idx] \notin Created
          /\ pc' = "loop" => (idx' = idx + 1 /\ pi' = pi)]_vars

C27_Witness ==
  /\ pc = "done"
  /\ Len(pi) >= 2
  /\ idx = Len(pi) + 1
  /\ Created # {}


====
